---------------------------- MODULE Spec2Model ----------------------------
(***************************************************************************)
(* A model of the myve backend's two core components:                      *)
(*                                                                         *)
(*   - the intent router, ResponseAgent (agents/response_agent.py): the   *)
(*     session cache, interpret_user_goal with its retry loop and          *)
(*     fallbacks, the allow-list filter, handler dispatch, chaining and    *)
(*     summarisation, for route and for route_with_schema;                 *)
(*   - the snapshot derivation, AgentDataOrchestrator._fetch_async_data    *)
(*     (agent_orchestrator.py) with the domain summarizers it reads.       *)
(*                                                                         *)
(* Strings the code inspects (queries, user ids, cache keys) are sequences *)
(* of tokens; strings it only compares are TLA+ strings.                   *)
(***************************************************************************)
EXTENDS Integers, Sequences, FiniteSets, TLC

(***************************************************************************)
(* Bounds of the model.                                                    *)
(***************************************************************************)
MaxRequests == 2
MaxGoals == 2
MaxCacheOps == 1
MaxTicks == 2

(***************************************************************************)
(* Program constants.                                                      *)
(***************************************************************************)
retries == 4
ttl == 3600

\* seconds that pass in one step of the clock: half a cache lifetime
TickStep == ttl \div 2

(***************************************************************************)
(* Generic helpers.                                                        *)
(***************************************************************************)
Range(s) == {s[i] : i \in 1..Len(s)}

Pow2(k) == 2 ^ k

SeqsUpTo(S, n) == UNION {[1..k -> S] : k \in 0..n}

\* every ordering of the finite set S as a sequence without repetition
Orderings(S) ==
    {s \in [1..Cardinality(S) -> S] : \A i, j \in 1..Cardinality(S) : s[i] = s[j] => i = j}

\* [x for x in s if x in S]
RECURSIVE FilterSeq(_, _)
FilterSeq(s, S) ==
    IF s = <<>> THEN <<>>
    ELSE IF Head(s) \in S THEN <<Head(s)>> \o FilterSeq(Tail(s), S)
    ELSE FilterSeq(Tail(s), S)

(***************************************************************************)
(* Text: a string is a sequence of tokens, a token a word, a blank or a    *)
(* punctuation mark.                                                       *)
(***************************************************************************)
VisionPrefix == "[vision] "

\* str.lower() on one token
LowerTok(t) ==
    CASE t = "LOAN" -> "loan"
      [] t = "HELLO" -> "hello"
      [] OTHER -> t

Lower(s) == [i \in 1..Len(s) |-> LowerTok(s[i])]

RECURSIVE LStrip(_)
LStrip(s) == IF s # <<>> /\ Head(s) = " " THEN LStrip(Tail(s)) ELSE s

RECURSIVE RStrip(_)
RStrip(s) ==
    IF s # <<>> /\ s[Len(s)] = " " THEN RStrip(SubSeq(s, 1, Len(s) - 1)) ELSE s

\* str.strip()
Strip(s) == RStrip(LStrip(s))

\* keyword in prompt.lower(), for the keywords of the fallback vocabulary
Keywords == {"bike", "loan", "trip", "travel", "education", "surgery"}

HasKeyword(prompt) == \E i \in 1..Len(prompt) : LowerTok(prompt[i]) \in Keywords

(***************************************************************************)
(* The router's vocabulary.                                                *)
(***************************************************************************)
Intents == {"buy", "plan", "assess", "repay"}

intent_agent_map(i) ==
    CASE i = "buy" -> "buying_agent"
      [] i = "repay" -> "repaying_agent"
      [] i = "plan" -> "planning_agent"
      [] i = "assess" -> "assess_agent"

allowed_agents == {"buying_agent", "repaying_agent", "planning_agent", "assess_agent"}

allowed_data_keys == {"bank", "credit", "epf", "networth", "mf", "stock"}

default_data_keys == <<"bank", "credit", "networth", "epf", "mf", "stock">>

\* the keys of self.intent_map
intent_map_keys == {"buying", "repaying", "planning", "assess"}

\* "assess" if name == "assess_agent" else name.replace("_agent", "")
AgentKey(name) ==
    CASE name = "assess_agent" -> "assess"
      [] name = "buying_agent" -> "buying"
      [] name = "repaying_agent" -> "repaying"
      [] name = "planning_agent" -> "planning"
      [] name = "buy_agent" -> "buy"
      [] name = "repay_agent" -> "repay"
      [] name = "plan_agent" -> "plan"
      [] name = "admin_agent" -> "admin"
      [] OTHER -> name

\* f"{fallback_intent}_agent"
FallbackAgentName(i) ==
    CASE i = "buy" -> "buy_agent"
      [] i = "repay" -> "repay_agent"
      [] i = "plan" -> "plan_agent"
      [] i = "assess" -> "assess_agent"


(***************************************************************************)
(* Inputs of the router: users, queries, what the advisory service and the *)
(* handlers can answer.                                                    *)
(***************************************************************************)
Users == {<<"u1">>, <<"u2">>}

\* " LOAN " and "loan" are one query after trimming and lower-casing
Queries ==
    {<<"loan">>, <<" ", "LOAN", " ">>, <<"hello">>, <<VisionPrefix, "loan">>}

SessionQueries == Queries \ {<<"hello">>}

\* one call needs one user
CallUsers == {<<"u1">>}

\* a JSON value that may be missing, null or a list
Absent == [tag |-> "absent", v |-> <<>>]
Null == [tag |-> "null", v |-> <<>>]
List(s) == [tag |-> "list", v |-> s]

NamedAgents == {<<>>, <<"admin_agent", "buying_agent">>}

\* the "intents" of a classification: missing, null, supported and unsupported
\* names, a repeated name, up to three handlers
JsonIntents ==
    {Absent, Null} \cup
    {List(s) : s \in {<<>>, <<"buy">>, <<"plan">>, <<"assess">>, <<"repay">>,
                      <<"hack">>, <<"buy", "hack">>, <<"buy", "buy">>,
                      <<"buy", "plan">>, <<"buy", "repay">>, <<"plan", "repay">>,
                      <<"assess", "buy", "plan">>}}

JsonDataKeys == {Absent, Null, List(<<"passwords", "mf">>), List(<<"passwords">>)}

\* what call_gemini returns for the classification prompt; on an error of the
\* service it returns its error text, which is "text" here
AdvisoryResponses ==
    {[kind |-> k, intents |-> Absent, data_keys |-> Absent, agents |-> <<>>] :
        k \in {"empty", "html", "badjson", "text"}}
    \cup
    {[kind |-> "json", intents |-> i, data_keys |-> d, agents |-> a] :
        i \in JsonIntents, d \in JsonDataKeys, a \in NamedAgents}

\* schema.get(key, []) on a JSON value
GetOrEmpty(x) == IF x.tag = "absent" THEN List(<<>>) ELSE x

(***************************************************************************)
(* interpret_user_goal: one attempt of the retry loop.                     *)
(***************************************************************************)
\* the text json.loads receives: clean_json_block returns the first {...}
\* block, or "{}" when the text holds none
CleanJsonBlock(r) ==
    IF r.kind = "text"
    THEN [kind |-> "json", intents |-> Absent, data_keys |-> Absent, agents |-> <<>>]
    ELSE r

\* the attempt raises: empty or HTML response, json.loads fails, or the
\* comprehension iterates intents = null
AttemptRaises(r) ==
    \/ r.kind \in {"empty", "html", "badjson"}
    \/ CleanJsonBlock(r).intents.tag = "null"

\* [intent_agent_map[i] for i in schema.get("intents", []) if i in intent_agent_map]
RECURSIVE NormalizedAgents(_)
NormalizedAgents(s) ==
    IF s = <<>> THEN <<>>
    ELSE IF Head(s) \in Intents
         THEN <<intent_agent_map(Head(s))>> \o NormalizedAgents(Tail(s))
         ELSE NormalizedAgents(Tail(s))

\* list(set(normalized_agents)): the order of a set of strings is not fixed
AgentListsOf(s) == Orderings(Range(NormalizedAgents(s)))

\* the schemas a successful attempt can return for response r; raw keeps the
\* kind of the response the schema was parsed from
ParsedSchemas(r) ==
    LET j == CleanJsonBlock(r)
    IN  {[intents |-> j.intents, agents |-> List(a), data_keys |-> j.data_keys,
          path |-> "parsed", raw |-> r.kind] : a \in AgentListsOf(GetOrEmpty(j.intents).v)}

(***************************************************************************)
(* interpret_user_goal: the fallback after the retries are used up.        *)
(***************************************************************************)
\* what detect_intent can return: one intent, several joined by commas, or
\* "unknown"
FallbackIntents == Intents \cup {"buy,plan", "unknown"}

KeywordSchema ==
    [intents |-> List(<<"plan">>), agents |-> List(<<"planning_agent">>),
     data_keys |-> List(<<"bank", "credit">>), path |-> "keyword",
     raw |-> "none"]

DefensiveSchema ==
    [intents |-> List(<<"plan">>), agents |-> List(<<"planning_agent">>),
     data_keys |-> List(<<"bank", "credit">>), path |-> "default",
     raw |-> "none"]

\* a variant that returns the first fallback schema as built, without the
\* keyword and defensive replacements
C12_NoReplacement(fallback_intent, prompt) ==
    [intents |-> List(<<fallback_intent>>),
     agents |-> List(IF fallback_intent \in {"buy", "repay", "plan", "assess"}
                     THEN <<FallbackAgentName(fallback_intent)>> ELSE <<>>),
     data_keys |-> List(<<"credit", "bank">>), path |-> "fallback",
     raw |-> "none"]

FallbackSchema(fallback_intent, prompt) ==
    LET agents == IF fallback_intent \in {"buy", "repay", "plan", "assess"}
                  THEN <<FallbackAgentName(fallback_intent)>> ELSE <<>>
        schema == [intents |-> List(<<fallback_intent>>), agents |-> List(agents),
                   data_keys |-> List(<<"credit", "bank">>), path |-> "fallback",
                   raw |-> "none"]
    IN  IF agents = <<>>
        THEN IF HasKeyword(prompt) THEN KeywordSchema ELSE DefensiveSchema
        ELSE schema

(***************************************************************************)
(* Handlers and their results.                                             *)
(***************************************************************************)
\* AgentResponse.response: "" is the empty sequence
NoText == <<>>
AdviceOf(key) == <<"advice", key>>
FailedText(key) == <<"failed", key>>
NoAdviceText == <<"We couldn't extract any financial advice">>

\* a goal of PlanningAgent's metadata["goal"]
Goal(a, t) == [amount |-> a, timeline_months |-> t]

GoalKinds == {Goal(600000, 12), Goal(600000, 6), Goal(0, 12)}

GoalLists == SeqsUpTo(GoalKinds, MaxGoals)

\* an AgentResponse: response text and the metadata route reads
Result(text, key, plan, goal) ==
    [response |-> text, agent |-> key, plan |-> plan, goal |-> goal]

Raised == [raised |-> TRUE, result |-> Result(NoText, "none", FALSE, <<>>)]
Returned(r) == [raised |-> FALSE, result |-> r]

\* what a call of the handler can end in.  BuyingAgent.run sets "plan" only
\* together with a numeric "price"; PlanningAgent.run sets "goal" to a list of
\* GoalMetadata dicts with numeric fields.
HandlerOutcomes(key) ==
    {Raised, Returned(Result(NoText, key, FALSE, <<>>)),
     Returned(Result(AdviceOf(key), key, FALSE, <<>>))}
    \cup
    (IF key = "buying"
     THEN {Returned(Result(AdviceOf(key), key, TRUE, <<>>))}
     ELSE {})
    \cup
    (IF key = "planning"
     THEN {Returned(Result(AdviceOf(key), key, FALSE, g)) : g \in GoalLists}
     ELSE {})

\* results: a dict, as the sequence of its items in insertion order
HasResult(results, key) == \E i \in 1..Len(results) : results[i].key = key

GetResult(results, key) ==
    (CHOOSE e \in Range(results) : e.key = key).r

\* results[key] = r
PutResult(results, key, r) ==
    IF HasResult(results, key)
    THEN [i \in 1..Len(results) |->
            IF results[i].key = key THEN [key |-> key, r |-> r] ELSE results[i]]
    ELSE Append(results, [key |-> key, r |-> r])

\* list(results.keys())
ResultKeys(results) == [i \in 1..Len(results) |-> results[i].key]

\* g.get("amount", 0) > 0 and g.get("timeline_months", 0) > 6
GoalQualifies(g) == g.amount > 0 /\ g.timeline_months > 6

\* the first index >= from of a qualifying goal, 0 when there is none
NextQualifying(goals, from) ==
    IF \E i \in from..Len(goals) : GoalQualifies(goals[i])
    THEN CHOOSE i \in from..Len(goals) :
            /\ GoalQualifies(goals[i])
            /\ \A j \in from..(i - 1) : ~GoalQualifies(goals[j])
    ELSE 0

(***************************************************************************)
(* The session cache: TTLCache(maxsize=1000, ttl), a set of entries.  It   *)
(* holds at most MaxCacheOps entries here, so none is evicted for size.    *)
(***************************************************************************)
\* f"{user_id}:{prompt.strip().lower()}"
\* a variant that keys the cache by the prompt as given
C18_RawKey(prompt, user_id) == user_id \o <<":">> \o prompt

session_key(prompt, user_id) == user_id \o <<":">> \o Lower(Strip(prompt))

\* TTLCache.get: the unexpired entries under the key
CacheHits(c, key, t) == {e \in c : e.key = key /\ t < e.expires}

\* TTLCache.__setitem__: expired entries are dropped, the key's entry replaced
CacheSet(c, key, resp, t) ==
    {e \in c : e.key # key /\ t < e.expires}
        \cup {[key |-> key, response |-> resp, expires |-> t + ttl]}

(***************************************************************************)
(* Summarisation helpers.                                                  *)
(***************************************************************************)
\* agent_outputs: the non-empty responses of the results, in the order of
\* schema["agents"]
RECURSIVE AgentOutputs(_, _)
AgentOutputs(agents, results) ==
    IF agents = <<>> THEN <<>>
    ELSE LET k == AgentKey(Head(agents))
             rest == AgentOutputs(Tail(agents), results)
         IN  IF HasResult(results, k) /\ GetResult(results, k).response # NoText
             THEN <<GetResult(results, k).response>> \o rest
             ELSE rest

\* curate_response: one labelled section per item of results
SectionOf(key, r) ==
    IF r.response = NoText
    THEN [label |-> <<key, "Insight">>,
          body |-> IF key = "assess" THEN <<"Unable to analyze">>
                   ELSE <<"No insight available.">>]
    ELSE [label |-> CASE r.agent = "buying" -> <<"Purchase Advice">>
                      [] r.agent = "repaying" -> <<"Debt Strategy">>
                      [] r.agent = "planning" -> <<"Future Plan Impact">>
                      [] r.agent = "assess" -> <<"Overall Financial Health">>
                      [] OTHER -> <<key>>,
          body |-> r.response]

curate_response(results) ==
    [i \in 1..Len(results) |-> SectionOf(results[i].key, results[i].r)]

\* what call_gemini returns for the summarisation prompt: a narrative, its
\* own error text, or nothing
SummaryOutcomes == {<<"narrative">>, <<"I couldn't process that right now.">>, NoText}

(***************************************************************************)
(* State.                                                                  *)
(***************************************************************************)
VARIABLES
    pc,            \* the router's position in route / route_with_schema
    mode,          \* "route" or "schema" (route_with_schema)
    user,          \* user_id of the request
    query,         \* user_query, after the vision prefix was cut off
    skip_cache,    \* the request carried the vision prefix
    attempt,       \* the retry loop's counter
    sleeps,        \* the seconds slept by the retry loop, in order
    classifyCalls, \* classification calls of this request
    detectCalls,   \* detect_intent calls of this request
    schema,        \* the GoalSchema
    data_keys,     \* the keys handed to the handlers
    idx,           \* position of the dispatch loop in agents_to_run
    results,       \* results, in insertion order
    calls,         \* the handler invocations of this request, in order
    gIdx,          \* position of the chaining loop in goals
    sumPrompt,     \* the agent outputs put in the summarisation prompt
    sumCalls,      \* summarisation calls of this request
    out,           \* what the call returned
    session_cache, \* ResponseAgent.session_cache
    now,           \* the clock, in seconds
    served,        \* the number of finished calls
    last,          \* the call finished last
    cacheOps       \* cache_response calls made from outside route

routerVars ==
    <<pc, mode, user, query, skip_cache, attempt, sleeps, classifyCalls,
      detectCalls, schema, data_keys, idx, results, calls, gIdx, sumPrompt,
      sumCalls, out, session_cache, now, served, last, cacheOps>>

NoSchema == [intents |-> Absent, agents |-> Absent, data_keys |-> Absent, path |-> "none",
                   raw |-> "none"]
NoOut == [kind |-> "none", text |-> NoText, agents |-> <<>>]
NoCall ==
    [user |-> <<>>, query |-> <<>>, key |-> <<>>, skip |-> FALSE, mode |-> "none",
     at |-> 0, classified |-> 0]

RouterInit ==
    /\ pc = "idle"
    /\ mode = "route"
    /\ user = <<>>
    /\ query = <<>>
    /\ skip_cache = FALSE
    /\ attempt = 0
    /\ sleeps = <<>>
    /\ classifyCalls = 0
    /\ detectCalls = 0
    /\ schema = NoSchema
    /\ data_keys = <<>>
    /\ idx = 0
    /\ results = <<>>
    /\ calls = <<>>
    /\ gIdx = 0
    /\ sumPrompt = <<>>
    /\ sumCalls = 0
    /\ out = NoOut
    /\ session_cache = {}
    /\ now = 0
    /\ served = 0
    /\ last = NoCall
    /\ cacheOps = 0

(***************************************************************************)
(* route: entry, cache lookup.                                             *)
(***************************************************************************)
\* the responses a caller can store with cache_response
StoredResponses == {[kind |-> "stored", text |-> <<"stored advice">>, agents |-> <<>>]}

\* route, lines 167-177, on a ResponseAgent whose cache is c
RouteEntry(u, q, c) ==
    LET skip == q # <<>> /\ Head(q) = VisionPrefix
        uq == IF skip THEN Tail(q) ELSE q
        hits == IF skip THEN {} ELSE CacheHits(c, session_key(uq, u), now)
    IN  /\ mode' = "route"
        /\ user' = u
        /\ query' = uq
        /\ skip_cache' = skip
        /\ session_cache' = c
        /\ IF hits # {}
           THEN /\ out' = (CHOOSE e \in hits : TRUE).response
                /\ pc' = "done"
           ELSE /\ out' = out
                /\ pc' = "interpret"
        /\ UNCHANGED <<attempt, sleeps, classifyCalls, detectCalls, schema,
                       data_keys, idx, results, calls, gIdx, sumPrompt, sumCalls,
                       now, served, last, cacheOps>>

\* agent.route(prompt, user_id) on the router at hand
Route(u, q) ==
    /\ pc = "idle"
    /\ RouteEntry(u, q, session_cache)

\* ai_route.ask: agent = ResponseAgent(); agent.route(prompt, user_id)
Ask(u, q) ==
    /\ pc = "idle"
    /\ RouteEntry(u, q, {})

\* the schema_override arguments of route_with_schema
OverrideSchemas ==
    {[intents |-> List(<<"buy">>), agents |-> a, data_keys |-> d, path |-> "override",
     raw |-> "none"] :
        a \in {List(<<"admin_agent", "buying_agent">>), List(<<"plan_agent">>),
               List(<<"assess_agent", "repaying_agent", "assess_agent">>), Absent},
        d \in {List(<<"passwords", "mf">>), Absent}}

\* route_with_schema, line 537
RouteWithSchema(u, q, override) ==
    /\ pc = "idle"
    /\ mode' = "schema"
    /\ user' = u
    /\ query' = q
    /\ schema' = override
    /\ pc' = "filter"
    /\ UNCHANGED <<skip_cache, attempt, sleeps, classifyCalls, detectCalls,
                   data_keys, idx, results, calls, gIdx, sumPrompt, sumCalls, out,
                   session_cache, now, served, last, cacheOps>>

\* cache_response(prompt, user_id, response), called on the router at hand
CacheResponse(u, q, resp) ==
    /\ pc = "idle"
    /\ cacheOps < MaxCacheOps
    /\ cacheOps' = cacheOps + 1
    /\ session_cache' = CacheSet(session_cache, session_key(q, u), resp, now)
    /\ UNCHANGED <<pc, mode, user, query, skip_cache, attempt, sleeps,
                   classifyCalls, detectCalls, schema, data_keys, idx, results,
                   calls, gIdx, sumPrompt, sumCalls, out, now, served, last>>

\* time passes between requests
Tick ==
    /\ pc = "idle"
    /\ now < MaxTicks * TickStep
    /\ now' = now + TickStep
    /\ UNCHANGED <<pc, mode, user, query, skip_cache, attempt, sleeps,
                   classifyCalls, detectCalls, schema, data_keys, idx, results,
                   calls, gIdx, sumPrompt, sumCalls, out, session_cache, served,
                   last, cacheOps>>

(***************************************************************************)
(* interpret_user_goal.                                                    *)
(***************************************************************************)
\* time.sleep(2 ** attempt)
Backoff(k) == Pow2(k)

\* a variant with a fifth attempt
C10_OneMoreAttempt(k) == k < retries + 1

\* for attempt in range(retries): there is an attempt numbered k
HasAttempt(k) == k < retries

\* one pass of the loop body, lines 299-339
ClassifyAttempt(answers) ==
    /\ pc = "interpret"
    /\ HasAttempt(attempt)
    /\ \E r \in answers :
        /\ classifyCalls' = classifyCalls + 1
        /\ IF AttemptRaises(r)
           THEN /\ sleeps' = Append(sleeps, Backoff(attempt))
                /\ attempt' = attempt + 1
                /\ pc' = "interpret"
                /\ schema' = schema
           ELSE /\ \E sc \in ParsedSchemas(r) : schema' = sc
                /\ pc' = "filter"
                /\ UNCHANGED <<sleeps, attempt>>
    /\ UNCHANGED <<mode, user, query, skip_cache, detectCalls, data_keys, idx,
                   results, calls, gIdx, sumPrompt, sumCalls, out, session_cache,
                   now, served, last, cacheOps>>

\* the loop is used up: detect_intent and the fallback schema, lines 341-372
FallbackDetect(answers) ==
    /\ pc = "interpret"
    /\ ~HasAttempt(attempt)
    /\ \E fi \in answers :
        /\ detectCalls' = detectCalls + 1
        /\ schema' = FallbackSchema(fi, query)
    /\ pc' = "filter"
    /\ UNCHANGED <<mode, user, query, skip_cache, attempt, sleeps, classifyCalls,
                   data_keys, idx, results, calls, gIdx, sumPrompt, sumCalls, out,
                   session_cache, now, served, last, cacheOps>>

(***************************************************************************)
(* The allow-list filter, lines 181-199 and 539-557.                       *)
(***************************************************************************)
\* [a for a in schema.get("agents", []) if a in allowed_agents]
FilterAgents(agents) == FilterSeq(agents, allowed_agents)

\* a variant without the filter on data_keys
C1_UnfilteredDataKeys(keys) == keys

\* [k for k in schema.get("data_keys", []) if k in allowed_data_keys]
FilterDataKeys(keys) == FilterSeq(keys, allowed_data_keys)

\* schema["data_keys"] or ["bank", "credit", "networth", "epf", "mf", "stock"]
EffectiveDataKeys(keys) == IF keys = <<>> THEN default_data_keys ELSE keys

ExceptionOut == [kind |-> "exception", text |-> NoText, agents |-> <<>>]

Filter ==
    /\ pc = "filter"
    /\ IF GetOrEmpty(schema.agents).tag = "null" \/ GetOrEmpty(schema.data_keys).tag = "null"
       THEN \* iterating None raises TypeError, which route does not catch
            /\ pc' = "raised"
            /\ out' = ExceptionOut
            /\ UNCHANGED <<schema, data_keys, idx>>
       ELSE /\ schema' = [schema EXCEPT
                            !.agents = List(FilterAgents(GetOrEmpty(schema.agents).v)),
                            !.data_keys = List(FilterDataKeys(GetOrEmpty(schema.data_keys).v))]
            /\ data_keys' = EffectiveDataKeys(FilterDataKeys(GetOrEmpty(schema.data_keys).v))
            /\ idx' = 1
            /\ pc' = "dispatch"
            /\ out' = out
    /\ UNCHANGED <<mode, user, query, skip_cache, attempt, sleeps, classifyCalls,
                   detectCalls, results, calls, gIdx, sumPrompt, sumCalls,
                   session_cache, now, served, last, cacheOps>>

(***************************************************************************)
(* Dispatch, lines 201-213 and 559-571.                                    *)
(***************************************************************************)
\* AgentResponse(response=f"{agent_key} failed: {e}", metadata={"agent": agent_key})
Placeholder(key) == Result(FailedText(key), key, FALSE, <<>>)

\* the record of one handler invocation
Call(key, how, keys, o) ==
    [agent |-> key, how |-> how, keys |-> keys, raised |-> o.raised,
     response |-> o.result.response]

\* a variant: a raise ends the dispatch loop
C9_AbortOnRaise(i, raised, n) == IF raised THEN n + 1 ELSE i + 1

\* a variant: a handler that raised is called again
C28_RetryOnRaise(i, raised, n) == IF raised THEN i ELSE i + 1

\* where the dispatch loop goes on after the call at position i: the except
\* clause records the failure and the loop takes the next agent
AfterCall(i, raised, n) == i + 1

DispatchCall(outcomes) ==
    /\ pc = "dispatch"
    /\ idx <= Len(schema.agents.v)
    /\ LET key == AgentKey(schema.agents.v[idx])
       IN  IF key \notin intent_map_keys
           THEN /\ idx' = idx + 1
                /\ UNCHANGED <<results, calls>>
           ELSE \E o \in HandlerOutcomes(key) \cap outcomes :
                /\ calls' = Append(calls, Call(key, "direct", data_keys, o))
                /\ results' = PutResult(results, key,
                                  IF o.raised THEN Placeholder(key) ELSE o.result)
                /\ idx' = AfterCall(idx, o.raised, Len(schema.agents.v))
    /\ UNCHANGED <<pc, mode, user, query, skip_cache, attempt, sleeps,
                   classifyCalls, detectCalls, schema, data_keys, gIdx, sumPrompt,
                   sumCalls, out, session_cache, now, served, last, cacheOps>>

\* the loop is over; route_with_schema has no chaining
DispatchEnd ==
    /\ pc = "dispatch"
    /\ idx > Len(schema.agents.v)
    /\ pc' = IF mode = "route" THEN "chain" ELSE "summarize"
    /\ UNCHANGED <<mode, user, query, skip_cache, attempt, sleeps, classifyCalls,
                   detectCalls, schema, data_keys, idx, results, calls, gIdx,
                   sumPrompt, sumCalls, out, session_cache, now, served, last, cacheOps>>

(***************************************************************************)
(* Chaining, lines 215-237.                                                *)
(***************************************************************************)
\* a variant: the chaining block is entered on a buying result alone
C3_BuyingOnlyGuard(res) == HasResult(res, "buying")

\* "buying" in results and "planning" not in results
ChainGuard(res) == HasResult(res, "buying") /\ ~HasResult(res, "planning")

\* plan_data = buying_meta.get("plan"); if plan_data:
HasPlanData(res) == GetResult(res, "buying").plan

\* lines 216-225: the chained planning call
ChainPlanning(outcomes) ==
    /\ pc = "chain"
    /\ ChainGuard(results)
    /\ IF HasPlanData(results)
       THEN \E o \in HandlerOutcomes("planning") \cap outcomes :
            /\ calls' = Append(calls, Call("planning", "chain", data_keys, o))
            /\ results' = IF o.raised THEN results
                          ELSE PutResult(results, "planning", o.result)
       ELSE UNCHANGED <<results, calls>>
    /\ gIdx' = 1
    /\ pc' = "chain_repay"
    /\ UNCHANGED <<mode, user, query, skip_cache, attempt, sleeps, classifyCalls,
                   detectCalls, schema, data_keys, idx, sumPrompt, sumCalls, out,
                   session_cache, now, served, last, cacheOps>>

\* the guard of line 216 is false: the whole block is skipped
ChainSkip ==
    /\ pc = "chain"
    /\ ~ChainGuard(results)
    /\ pc' = "summarize"
    /\ UNCHANGED <<mode, user, query, skip_cache, attempt, sleeps, classifyCalls,
                   detectCalls, schema, data_keys, idx, results, calls, gIdx,
                   sumPrompt, sumCalls, out, session_cache, now, served, last, cacheOps>>

\* goals = plan_meta.get("goal", []) of results.get("planning")
PlanGoals(res) == IF HasResult(res, "planning") THEN GetResult(res, "planning").goal ELSE <<>>

\* lines 230-237: the loop over goals reaches a qualifying goal and calls the
\* repaying handler; a return breaks the loop, a raise goes on to the next goal
ChainRepaying(outcomes) ==
    /\ pc = "chain_repay"
    /\ NextQualifying(PlanGoals(results), gIdx) # 0
    /\ \E o \in HandlerOutcomes("repaying") \cap outcomes :
        /\ calls' = Append(calls, Call("repaying", "chain", data_keys, o))
        /\ IF o.raised
           THEN /\ gIdx' = NextQualifying(PlanGoals(results), gIdx) + 1
                /\ pc' = "chain_repay"
                /\ results' = results
           ELSE /\ results' = PutResult(results, "repaying", o.result)
                /\ pc' = "summarize"
                /\ gIdx' = gIdx
    /\ UNCHANGED <<mode, user, query, skip_cache, attempt, sleeps, classifyCalls,
                   detectCalls, schema, data_keys, idx, sumPrompt, sumCalls, out,
                   session_cache, now, served, last, cacheOps>>

\* no planning result, or no qualifying goal is left
ChainEnd ==
    /\ pc = "chain_repay"
    /\ NextQualifying(PlanGoals(results), gIdx) = 0
    /\ pc' = "summarize"
    /\ UNCHANGED <<mode, user, query, skip_cache, attempt, sleeps, classifyCalls,
                   detectCalls, schema, data_keys, idx, results, calls, gIdx,
                   sumPrompt, sumCalls, out, session_cache, now, served, last, cacheOps>>

(***************************************************************************)
(* Summarising, lines 239-280 and 574-606.                                 *)
(***************************************************************************)
\* no agent output: the fixed message, without a summarisation call
SummarizeNone ==
    /\ pc = "summarize"
    /\ AgentOutputs(schema.agents.v, results) = <<>>
    /\ out' = [kind |-> "noadvice", text |-> NoAdviceText, agents |-> ResultKeys(results)]
    /\ pc' = "done"
    /\ UNCHANGED <<mode, user, query, skip_cache, attempt, sleeps, classifyCalls,
                   detectCalls, schema, data_keys, idx, results, calls, gIdx,
                   sumPrompt, sumCalls, session_cache, now, served, last, cacheOps>>

\* the unified summary, or curate_response when call_gemini returns nothing
SummarizeCall(answers) ==
    /\ pc = "summarize"
    /\ AgentOutputs(schema.agents.v, results) # <<>>
    /\ sumPrompt' = AgentOutputs(schema.agents.v, results)
    /\ sumCalls' = sumCalls + 1
    /\ \E summary_text \in answers :
        out' = IF summary_text # NoText
               THEN [kind |-> "summary", text |-> summary_text,
                     agents |-> ResultKeys(results)]
               ELSE [kind |-> "curated", text |-> curate_response(results),
                     agents |-> ResultKeys(results)]
    /\ pc' = "done"
    /\ UNCHANGED <<mode, user, query, skip_cache, attempt, sleeps, classifyCalls,
                   detectCalls, schema, data_keys, idx, results, calls, gIdx,
                   session_cache, now, served, last, cacheOps>>

(***************************************************************************)
(* The call is over: the caller has the response (or the exception).       *)
(***************************************************************************)
Finished == pc \in {"done", "raised"}

Finish ==
    /\ Finished
    /\ served' = served + 1
    /\ last' = [user |-> user, query |-> query, key |-> session_key(query, user),
                skip |-> skip_cache, mode |-> mode, at |-> now,
                classified |-> classifyCalls]
    /\ pc' = "idle"
    /\ mode' = "route"
    /\ user' = <<>>
    /\ query' = <<>>
    /\ skip_cache' = FALSE
    /\ attempt' = 0
    /\ sleeps' = <<>>
    /\ classifyCalls' = 0
    /\ detectCalls' = 0
    /\ schema' = NoSchema
    /\ data_keys' = <<>>
    /\ idx' = 0
    /\ results' = <<>>
    /\ calls' = <<>>
    /\ gIdx' = 0
    /\ sumPrompt' = <<>>
    /\ sumCalls' = 0
    /\ out' = NoOut
    /\ UNCHANGED <<session_cache, now, cacheOps>>

(***************************************************************************)
(*                                                                         *)
(* The snapshot derivation: AgentDataOrchestrator._fetch_async_data.       *)
(*                                                                         *)
(* Amounts are integers.  A date is a whole number of months; the scan's   *)
(* window is compared in months.                                           *)
(***************************************************************************)
MaxAssets == 2
MaxTxns == 2
MaxMfTxns == 2

\* relativedelta(months=3)
months == 3

\* datetime.now(), in months
Today == 24

\* the value of a token made of digits
DigitValue(t) ==
    CASE t = "0" -> 0
      [] t = "5000" -> 5000
      [] t = "15000" -> 15000
      [] t = "100000" -> 100000

DigitTokens == {"0", "5000", "15000", "100000"}

\* s.replace('.', '', 1)
RECURSIVE ReplaceFirstDot(_)
ReplaceFirstDot(s) ==
    IF s = <<>> THEN <<>>
    ELSE IF Head(s) = "." THEN Tail(s)
    ELSE <<Head(s)>> \o ReplaceFirstDot(Tail(s))

\* str.isdigit()
IsDigit(s) == s # <<>> /\ \A i \in 1..Len(s) : s[i] \in DigitTokens

\* float(s) of a string that passed the isdigit test: digits, or digits
\* followed by ".0"
FloatOf(s) == DigitValue(s[1])

\* float(str(value_raw).strip()) if
\* str(value_raw).strip().replace('.', '', 1).isdigit() else 0
ParseUnits(value_raw) ==
    IF IsDigit(ReplaceFirstDot(Strip(value_raw))) THEN FloatOf(Strip(value_raw)) ELSE 0

Abs(x) == IF x < 0 THEN -x ELSE x

\* needle in s: needle is a run of consecutive tokens of s
Contains(s, needle) ==
    \E i \in 1..(Len(s) - Len(needle) + 1) : SubSeq(s, i, i + Len(needle) - 1) = needle

\* str.upper() on one token of an attribute tag
UpperTok(t) ==
    CASE t = "mf" -> "MF"
      [] t = "balance" -> "BALANCE"
      [] OTHER -> t

Upper(s) == [i \in 1..Len(s) |-> UpperTok(s[i])]

SAVINGS == <<"SAVINGS">>
DEPOSIT == <<"DEPOSIT">>
LIABILITY == <<"LIABILITY">>
CREDIT_CARD == <<"CREDIT", "_", "CARD">>
EPF_BALANCE == <<"EPF", "_", "BALANCE">>
MF_BALANCE == <<"MF", "_", "BALANCE">>
UNKNOWN_ASSET == <<"UNKNOWN", "_", "ASSET">>

(***************************************************************************)
(* The raw sources.                                                        *)
(***************************************************************************)
\* an entry of netWorthResponse.assetValues: a dict with its attribute tag
\* and value.units, or (isDict = FALSE) a string in its place
AssetItem(tag, units) == [isDict |-> TRUE, netWorthAttribute |-> tag, units |-> units]
StringItem == [isDict |-> FALSE, netWorthAttribute |-> <<>>, units |-> <<>>]

AssetItems ==
    {AssetItem(<<"SAVINGS", "_", "ACCOUNT">>, <<"100000">>),
     AssetItem(<<"CREDIT", "_", "CARD">>, <<"-", "15000">>),
     AssetItem(<<"LIABILITY", "_", "LOAN">>, <<"5000">>),
     AssetItem(<<" ", "mf", "_", "balance">>, <<"5000">>),
     AssetItem(<<"EPF", "_", "BALANCE">>, <<"5000", ".", "0">>),
     AssetItem(<<"FIXED", "_", "DEPOSIT">>, <<"n/a">>),
     StringItem}

\* a bank transaction: positional [amount, narration, date, type, ...] with
\* a type code, or keyed {txnAmount, txnDate, txnType} with a type string;
\* date is the month it is dated in, -1 when the date string does not parse
BankTxn(shape, amount, date, type) ==
    [shape |-> shape, amount |-> amount, date |-> date, type |-> type]

BankTxns ==
    {BankTxn("list", 50000, Today, 1),
     BankTxn("list", 20000, Today - 1, 2),
     BankTxn("list", 7000, Today - 5, 1),
     BankTxn("list", 300, Today, 4),
     BankTxn("list", -900, Today, 1),
     BankTxn("dict", 50000, Today, "CREDIT"),
     BankTxn("dict", 20000, Today, "debit"),
     BankTxn("dict", 7000, Today - 5, "DEBIT"),
     BankTxn("list", 400, -1, 1)}

\* a mutual-fund transaction [order_type, date, nav, units, amount] of one
\* fund; wellFormed = FALSE for an entry that is no list of five fields
MfTxn(order_type, dateOk, nav, units) ==
    [wellFormed |-> TRUE, order_type |-> order_type, dateOk |-> dateOk,
     nav |-> nav, units |-> units]

MfTxns == {MfTxn(1, TRUE, 5, 1000), MfTxn(2, TRUE, 5, 2000), MfTxn(1, FALSE, 5, 1000)}

\* overall_pf_balance of the first UAN account
EpfDetails == {[current_pf_balance |-> 0, pension_balance |-> 0],
               [current_pf_balance |-> 9000, pension_balance |-> 0],
               [current_pf_balance |-> 0, pension_balance |-> -700]}

\* the sum of currentBalance over the credit accounts
CreditBalances == {0, 2500}

\* netWorthResponse.totalNetWorthValue.units
NetWorthTotals == {0, 150000}

\* the amount invested by the BUY transactions of the stock source
StockInvested == {8000}

Sources == {"networth", "credit", "assets", "mf", "bank", "stock", "epf"}

Bundle(assets, bank, mf, epf, credit, nw, stock) ==
    [assets_list |-> assets, bank_txns |-> bank, mf_txns |-> mf, epf |-> epf,
     credit |-> credit, networth_total |-> nw, stock_invested |-> stock]

EmptyBundle ==
    Bundle(<<>>, <<>>, <<>>, [current_pf_balance |-> 0, pension_balance |-> 0], 0, 0, 0)

\* The bank scan reads bank_txns and nothing else reads them (lines 99-142),
\* so a bundle varies the bank source or the other sources.
Bundles ==
    {[EmptyBundle EXCEPT !.bank_txns = b] : b \in SeqsUpTo(BankTxns, MaxTxns)}
    \cup
    {Bundle(a, <<>>, m, e, c, n, k) :
        a \in SeqsUpTo(AssetItems, MaxAssets), m \in SeqsUpTo(MfTxns, MaxMfTxns),
        e \in EpfDetails, c \in CreditBalances, n \in NetWorthTotals,
        k \in StockInvested}

(***************************************************************************)
(* The processors the derivation reads.                                    *)
(***************************************************************************)
RECURSIVE SumSeq(_)
SumSeq(s) == IF s = <<>> THEN 0 ELSE Head(s) + SumSeq(Tail(s))

\* BankTransactionAnalyzer.process raises, and answers {"summary": {}}:
\* txn[0] of a keyed transaction, strptime of a date that does not parse
BankProcessRaises(txns) ==
    \E i \in 1..Len(txns) : txns[i].shape = "dict" \/ txns[i].date = -1

\* BankTransactionAnalyzer.process: the totals of the summary over the
\* transactions of every date, absent (read as 0) when the summary is {}
BankTotal(txns, code) ==
    IF BankProcessRaises(txns) \/ txns = <<>> THEN 0
    ELSE SumSeq([i \in 1..Len(txns) |->
                    IF txns[i].type = code THEN txns[i].amount ELSE 0])

totalCredits(txns) == BankTotal(txns, 1)
totalDebits(txns) == BankTotal(txns, 2)

\* MutualFundAnalyzer.process raises on a date that does not parse and the
\* orchestrator keeps mf_summary = {}
MfProcessRaises(txns) ==
    \E i \in 1..Len(txns) : txns[i].wellFormed /\ ~txns[i].dateOk

RECURSIVE total_units(_)
total_units(txns) ==
    IF txns = <<>> THEN 0
    ELSE LET t == txns[Len(txns)]
             rest == total_units(SubSeq(txns, 1, Len(txns) - 1))
         IN  IF ~t.wellFormed THEN rest
             ELSE IF t.order_type = 1 THEN rest + t.units
             ELSE IF t.order_type = 2 THEN rest - t.units
             ELSE rest

RECURSIVE latest_nav(_)
latest_nav(txns) ==
    IF txns = <<>> THEN 0
    ELSE LET t == txns[Len(txns)]
         IN  IF t.wellFormed THEN t.nav
             ELSE latest_nav(SubSeq(txns, 1, Len(txns) - 1))

\* mf_summary as the orchestrator keeps it (lines 53-58): what process
\* returned, or {} when process raised
mf_summary(txns) ==
    IF MfProcessRaises(txns) THEN [summary |-> FALSE, totalValue |-> 0]
    ELSE [summary |-> TRUE, totalValue |-> total_units(txns) * latest_nav(txns)]

\* mf_summary.summary.totalValue, read with default 0
totalValue(txns) ==
    IF MfProcessRaises(txns) THEN 0 ELSE total_units(txns) * latest_nav(txns)

\* process_networth_data: totalNetWorth.raw, read with default 0; an entry
\* that is no dict raises inside and the answer carries no summary
totalNetWorth(b) ==
    IF \E i \in 1..Len(b.assets_list) : ~b.assets_list[i].isDict THEN 0
    ELSE b.networth_total

(***************************************************************************)
(* Income and expenses (lines 99-142).                                     *)
(***************************************************************************)
\* txn_type_str of a transaction
TxnTypeStr(txn) ==
    IF txn.shape = "list" THEN (IF txn.type = 1 THEN "CREDIT" ELSE "DEBIT")
    ELSE CASE txn.type = "debit" -> "DEBIT"
           [] txn.type = "credit" -> "CREDIT"
           [] OTHER -> txn.type

\* date >= now - relativedelta(months=3), of a date that parsed
InWindow(date, today) == date >= today - months

\* what one transaction adds to the scan's total of the given type
ScanAmount(txn, type_str, today) ==
    IF txn.date # -1 /\ InWindow(txn.date, today) /\ TxnTypeStr(txn) = type_str
    THEN txn.amount ELSE 0

Scan(txns, type_str, today) ==
    SumSeq([i \in 1..Len(txns) |-> ScanAmount(txns[i], type_str, today)])

\* a variant without the fallback to the bank summary
C6_NoFallback(scanned, total) == scanned

\* a variant that prefers the bank summary's total whenever it has one
C27_SummaryFirst(scanned, total) == IF total # 0 THEN total ELSE scanned

\* the fallback of lines 133-142: a total that is still zero is read from
\* the bank summary
WithFallback(scanned, total) == IF scanned = 0 THEN total ELSE scanned

recent_income(b, today) ==
    WithFallback(Scan(b.bank_txns, "CREDIT", today), totalCredits(b.bank_txns))

recent_expenses(b, today) ==
    WithFallback(Scan(b.bank_txns, "DEBIT", today), totalDebits(b.bank_txns))

(***************************************************************************)
(* Savings and debt (lines 144-230).                                       *)
(***************************************************************************)
\* code of line 151
CodeOf(item) ==
    Strip(Upper(IF item.netWorthAttribute = <<>> THEN UNKNOWN_ASSET
                ELSE item.netWorthAttribute))

\* the tag the already-counted tests compare (lines 168, 172)
TagOf(item) == Strip(Upper(item.netWorthAttribute))

\* what one entry adds to savings_total in the loop of lines 148-161; an
\* entry that is no dict raises inside the try and is skipped
SavingsOf(item) ==
    IF item.isDict /\ (Contains(CodeOf(item), SAVINGS) \/ Contains(CodeOf(item), DEPOSIT))
    THEN ParseUnits(item.units) ELSE 0

DebtOf(item) ==
    IF item.isDict /\ (Contains(CodeOf(item), LIABILITY) \/ Contains(CodeOf(item), CREDIT_CARD))
    THEN Abs(ParseUnits(item.units)) ELSE 0

AssetSavings(assets) == SumSeq([i \in 1..Len(assets) |-> SavingsOf(assets[i])])
AssetDebt(assets) == SumSeq([i \in 1..Len(assets) |-> DebtOf(assets[i])])

epf_balance(b) == b.epf.current_pf_balance
mf_holdings(b) == totalValue(b.mf_txns)

epf_already_counted(assets) ==
    \E i \in 1..Len(assets) : TagOf(assets[i]) = EPF_BALANCE

mf_already_counted(assets) ==
    \E i \in 1..Len(assets) : TagOf(assets[i]) = MF_BALANCE

\* item.get of an entry that is no dict, outside any try (line 168)
AnyRaises(assets) == \E i \in 1..Len(assets) : ~assets[i].isDict

\* savings_total after lines 195-201
SavingsBeforeFallback(b) ==
    AssetSavings(b.assets_list)
    + (IF epf_already_counted(b.assets_list) THEN 0 ELSE epf_balance(b))
    + (IF mf_already_counted(b.assets_list) THEN 0 ELSE mf_holdings(b))

\* lines 203-210
savings_total(b) ==
    IF SavingsBeforeFallback(b) = 0 THEN totalNetWorth(b) ELSE SavingsBeforeFallback(b)

\* lines 213-230
debt_total(b) ==
    IF AssetDebt(b.assets_list) # 0 THEN AssetDebt(b.assets_list)
    ELSE (IF b.credit > 0 THEN b.credit ELSE 0)
         + (IF b.epf.pension_balance < 0 THEN Abs(b.epf.pension_balance) ELSE 0)

(***************************************************************************)
(* The deduplicated asset map (lines 272-299).                             *)
(***************************************************************************)
\* a variant that always writes the MUTUAL_FUNDS and EPF keys
C4_AllKeys(assets) == {"STOCKS", "NETWORTH_REPORTED", "CASH_SAVINGS", "MUTUAL_FUNDS", "EPF"}

MapKeys(assets) ==
    {"STOCKS", "NETWORTH_REPORTED", "CASH_SAVINGS"}
    \cup (IF mf_already_counted(assets) THEN {} ELSE {"MUTUAL_FUNDS"})
    \cup (IF epf_already_counted(assets) THEN {} ELSE {"EPF"})

\* a variant that starts from savings as it was before the net-worth fallback
C21_CashBeforeFallback(b) ==
    SavingsBeforeFallback(b)
    - (IF mf_already_counted(b.assets_list) THEN 0 ELSE totalValue(b.mf_txns))
    - (IF epf_already_counted(b.assets_list) THEN 0 ELSE epf_balance(b))

cash_value(b) ==
    savings_total(b)
    - (IF mf_already_counted(b.assets_list) THEN 0 ELSE totalValue(b.mf_txns))
    - (IF epf_already_counted(b.assets_list) THEN 0 ELSE epf_balance(b))

deduped_asset_map(b) ==
    [k \in MapKeys(b.assets_list) |->
        CASE k = "STOCKS" -> b.stock_invested
          [] k = "MUTUAL_FUNDS" -> totalValue(b.mf_txns)
          [] k = "EPF" -> b.epf.current_pf_balance
          [] k = "NETWORTH_REPORTED" -> totalNetWorth(b)
          [] k = "CASH_SAVINGS" -> cash_value(b)]

\* the dict returned at lines 314-362
Snapshot(b, today) ==
    [income |-> recent_income(b, today), expenses |-> recent_expenses(b, today),
     savings |-> savings_total(b), debt |-> debt_total(b),
     deduped_asset_map |-> deduped_asset_map(b),
     mf_summary |-> mf_summary(b.mf_txns)]

(***************************************************************************)
(* fetch_all_financial_data as one step.                                   *)
(***************************************************************************)
VARIABLES
    spc,      \* "start", "returned" (a snapshot came back) or "raised"
    store,    \* what the data store holds for the user
    failed,   \* the sources whose fetch raised
    snap      \* the snapshot returned

snapVars == <<spc, store, failed, snap>>

NoSnap ==
    [income |-> 0, expenses |-> 0, savings |-> 0, debt |-> 0,
     deduped_asset_map |-> <<>>, mf_summary |-> [summary |-> FALSE, totalValue |-> 0]]

\* no fetch raises, or one of them does
FailureSets == {{}} \cup {{s} : s \in Sources}

\* _fetch_async_data: the fetches are awaited outside any try (lines 34-41,
\* 82), so one that raises ends the call; so does an entry of the asset
\* list that is no dict (line 168); otherwise the snapshot is returned
fetch_all_financial_data(fails) ==
    /\ spc = "start"
    /\ failed' = fails
    /\ IF fails # {} \/ AnyRaises(store.assets_list)
       THEN spc' = "raised" /\ snap' = snap
       ELSE spc' = "returned" /\ snap' = Snapshot(store, Today)
    /\ UNCHANGED store

SnapIdle ==
    /\ spc = "start"
    /\ store = EmptyBundle
    /\ failed = {}
    /\ snap = NoSnap

(***************************************************************************)
(* _compute_monthly_trend (agent_orchestrator.py, lines 364-389).          *)
(***************************************************************************)
MaxHoldings == 2

\* sorted_months[:6]
TrendCap == 6

\* the months a transaction of the model can be dated in
LastMonth == 9

\* one transaction row as the trend reads it: n is len(entry), date the
\* month entry[1] is dated in (0 when strptime raises), a is entry[2] and b
\* entry[3] (nav and units of a fund row, quantity and price of a stock row),
\* num tells whether float() takes both
TrendEntry(n, date, a, b, num) == [n |-> n, date |-> date, a |-> a, b |-> b, num |-> num]

\* a fund or a stock: {"txns": [...]}
Holding(txns) == [txns |-> txns]

TrendHoldings ==
    {Holding(<<TrendEntry(5, 1, 5, 10, TRUE), TrendEntry(5, 2, 5, 20, TRUE),
               TrendEntry(5, 3, 6, 10, TRUE), TrendEntry(5, 4, 6, 20, TRUE)>>),
     Holding(<<TrendEntry(4, 4, 3, 100, TRUE), TrendEntry(4, 5, 3, 200, TRUE),
               TrendEntry(4, 6, 4, 100, TRUE), TrendEntry(4, 7, 4, 200, TRUE)>>),
     Holding(<<TrendEntry(4, 8, 2, 50, TRUE), TrendEntry(5, 8, 7, 10, TRUE),
               TrendEntry(4, 0, 2, 50, TRUE), TrendEntry(3, 9, 10, 0, TRUE),
               TrendEntry(4, 9, 10, 0, FALSE)>>),
     Holding(<<>>)}

HoldingLists == SeqsUpTo(TrendHoldings, MaxHoldings)

\* monthly[key] += amount on a defaultdict(float)
Bump(monthly, key, amount) ==
    [k \in DOMAIN monthly \cup {key} |->
        (IF k \in DOMAIN monthly THEN monthly[k] ELSE 0) + (IF k = key THEN amount ELSE 0)]

\* the inner loop of extract_month_value: a row with at most index fields is
\* passed over, one whose date or numbers do not convert raises inside the
\* try and is passed over too
RECURSIVE AddEntries(_, _, _)
AddEntries(monthly, entries, index) ==
    IF entries = <<>> THEN monthly
    ELSE LET entry == Head(entries)
         IN  AddEntries(IF entry.n > index /\ entry.date # 0 /\ entry.num
                        THEN Bump(monthly, entry.date, entry.b * entry.a)
                        ELSE monthly,
                        Tail(entries), index)

RECURSIVE AddHoldings(_, _, _)
AddHoldings(monthly, txns, index) ==
    IF txns = <<>> THEN monthly
    ELSE AddHoldings(AddEntries(monthly, Head(txns).txns, index), Tail(txns), index)

extract_month_value(txns, index) == AddHoldings(<<>>, txns, index)

\* combined[k] += v for the items of both dicts
Combined(mf_months, stock_months) ==
    [k \in DOMAIN mf_months \cup DOMAIN stock_months |->
        (IF k \in DOMAIN mf_months THEN mf_months[k] ELSE 0)
        + (IF k \in DOMAIN stock_months THEN stock_months[k] ELSE 0)]

\* a variant that sorts the keys in ascending order
RECURSIVE C22_SortedAscending(_)
C22_SortedAscending(keys) ==
    IF keys = {} THEN <<>>
    ELSE LET least == CHOOSE k \in keys : \A x \in keys : k <= x
         IN  <<least>> \o C22_SortedAscending(keys \ {least})

\* sorted(..., key=lambda x: x[0], reverse=True), as the sequence of keys
RECURSIVE SortedDescending(_)
SortedDescending(keys) ==
    IF keys = {} THEN <<>>
    ELSE LET top == CHOOSE k \in keys : \A x \in keys : k >= x
         IN  <<top>> \o SortedDescending(keys \ {top})

compute_monthly_trend(mf, stock) ==
    LET combined == Combined(extract_month_value(mf, 3), extract_month_value(stock, 3))
        sorted_months == SortedDescending(DOMAIN combined)
        kept == IF Len(sorted_months) > TrendCap THEN TrendCap ELSE Len(sorted_months)
    IN  [i \in 1..kept |-> [month |-> sorted_months[i], value |-> combined[sorted_months[i]]]]

(***************************************************************************)
(* BankTransactionAnalyzer.process as it is called over time               *)
(* (bank_processor.py, lines 15-74).                                       *)
(***************************************************************************)
MaxSummaries == 2
MaxMonthsOn == 1

\* a row whose date field is empty: line 27 dates it datetime.now()
DatelessTxn == BankTxn("list", 1200, 0, 2)

SummaryTxns ==
    {BankTxn("list", 50000, Today, 1), BankTxn("list", 20000, Today - 1, 2),
     DatelessTxn, BankTxn("list", 400, -1, 1)}

SummaryInputs == SeqsUpTo(SummaryTxns, MaxTxns)

\* the month a row is grouped under when process runs in month at
RowMonth(txn, at) == IF txn.date = 0 THEN at ELSE txn.date

\* df.groupby(df["date"].dt.to_period("M")) with the sum of the amounts
RECURSIVE BankMonthlyTrend(_, _, _)
BankMonthlyTrend(monthly, txns, at) ==
    IF txns = <<>> THEN monthly
    ELSE BankMonthlyTrend(Bump(monthly, RowMonth(Head(txns), at), Head(txns).amount),
                          Tail(txns), at)

\* what process() returns when it runs in month at
bank_summary(txns, at) ==
    IF BankProcessRaises(txns) \/ txns = <<>>
    THEN [summary |-> FALSE, totalCredits |-> 0, totalDebits |-> 0, monthlyTrend |-> <<>>]
    ELSE [summary |-> TRUE, totalCredits |-> totalCredits(txns),
          totalDebits |-> totalDebits(txns),
          monthlyTrend |-> BankMonthlyTrend(<<>>, txns, at)]

VARIABLES
    tpc,            \* "start" or "returned"
    mf_data,        \* the mutual-fund holdings passed in
    stock_data,     \* the stock holdings passed in
    monthly_trend,  \* the list returned
    bank_data,      \* the raw bank rows of the user
    clock,          \* datetime.now(), in months
    summaries       \* the bank summaries returned so far, with their time

procVars == <<tpc, mf_data, stock_data, monthly_trend, bank_data, clock, summaries>>

ProcIdle ==
    /\ tpc = "start"
    /\ mf_data = <<>>
    /\ stock_data = <<>>
    /\ monthly_trend = <<>>
    /\ bank_data = <<>>
    /\ clock = Today
    /\ summaries = <<>>

\* BankTransactionAnalyzer(user_id, bank_data).process()
BankProcess ==
    /\ Len(summaries) < MaxSummaries
    /\ summaries' = Append(summaries, [at |-> clock, out |-> bank_summary(bank_data, clock)])
    /\ UNCHANGED <<tpc, mf_data, stock_data, monthly_trend, bank_data, clock>>

\* a month passes between two calls
MonthPasses ==
    /\ clock < Today + MaxMonthsOn
    /\ clock' = clock + 1
    /\ UNCHANGED <<tpc, mf_data, stock_data, monthly_trend, bank_data, summaries>>

\* self._compute_monthly_trend(mf_txns, stock_txns), line 97
ComputeMonthlyTrend ==
    /\ tpc = "start"
    /\ monthly_trend' = compute_monthly_trend(mf_data, stock_data)
    /\ tpc' = "returned"
    /\ UNCHANGED <<mf_data, stock_data, bank_data, clock, summaries>>

AllOutcomes == UNION {HandlerOutcomes(k) : k \in intent_map_keys}

(***************************************************************************)
(* Spec: one call of route or route_with_schema on a fresh router, for     *)
(* every answer of the advisory service and every handler outcome.         *)
(***************************************************************************)
(***************************************************************************)
(* The cache methods called on their own, response_agent.py lines 84-90.   *)
(***************************************************************************)
VARIABLES
    stored,        \* the cache_response calls made so far: user, query, response
    got            \* the last get_cached_response call and what it returned

cacheVars == <<stored, got>>

NoGet == [user |-> <<>>, query |-> <<>>, returned |-> {}]

CacheIdle ==
    /\ stored = {}
    /\ got = NoGet

\* user ids are strings the caller supplies; one of them holds a colon
CacheUsers == Users \cup {<<"u1", ":", "u2">>}

CacheQueries == {<<"loan">>, <<" ", "LOAN", " ">>, <<"u2", ":", "loan">>}

\* cache_response(prompt, user_id, response), with the call put on record
StoreResponse(u, q, resp) ==
    /\ CacheResponse(u, q, resp)
    /\ stored' = stored \cup {[user |-> u, query |-> q, response |-> resp]}
    /\ got' = got

\* get_cached_response(prompt, user_id): self.session_cache.get(session_key)
GetCachedResponse(u, q) ==
    /\ pc = "idle"
    /\ got' = [user |-> u, query |-> q,
               returned |-> {e.response : e \in CacheHits(session_cache, session_key(q, u), now)}]
    /\ UNCHANGED <<routerVars, stored>>

vars == <<routerVars, snapVars, procVars, cacheVars>>

Init == RouterInit /\ SnapIdle /\ ProcIdle /\ CacheIdle

Next ==
    \/ \E u \in CallUsers, q \in Queries :
            served = 0 /\ Route(u, q) /\ UNCHANGED <<snapVars, procVars, cacheVars>>
    \/ \E u \in CallUsers, q \in Queries :
            served = 0 /\ Ask(u, q) /\ UNCHANGED <<snapVars, procVars, cacheVars>>
    \/ \E u \in CallUsers, q \in Queries, o \in OverrideSchemas :
            served = 0 /\ RouteWithSchema(u, q, o) /\ UNCHANGED <<snapVars, procVars, cacheVars>>
    \/ ClassifyAttempt(AdvisoryResponses) /\ UNCHANGED <<snapVars, procVars, cacheVars>>
    \/ FallbackDetect(FallbackIntents) /\ UNCHANGED <<snapVars, procVars, cacheVars>>
    \/ Filter /\ UNCHANGED <<snapVars, procVars, cacheVars>>
    \/ DispatchCall(AllOutcomes) /\ UNCHANGED <<snapVars, procVars, cacheVars>>
    \/ DispatchEnd /\ UNCHANGED <<snapVars, procVars, cacheVars>>
    \/ ChainPlanning(AllOutcomes) /\ UNCHANGED <<snapVars, procVars, cacheVars>>
    \/ ChainSkip /\ UNCHANGED <<snapVars, procVars, cacheVars>>
    \/ ChainRepaying(AllOutcomes) /\ UNCHANGED <<snapVars, procVars, cacheVars>>
    \/ ChainEnd /\ UNCHANGED <<snapVars, procVars, cacheVars>>
    \/ SummarizeNone /\ UNCHANGED <<snapVars, procVars, cacheVars>>
    \/ SummarizeCall(SummaryOutcomes) /\ UNCHANGED <<snapVars, procVars, cacheVars>>
    \/ Finish /\ UNCHANGED <<snapVars, procVars, cacheVars>>

Spec == Init /\ [][Next]_vars

(***************************************************************************)
(* SessionSpec: a session of several calls on routers that live on, with   *)
(* the clock and the cache operations, and a few answers per service.      *)
(***************************************************************************)
SessionAnswers ==
    {r \in AdvisoryResponses :
        /\ r.kind = "json"
        /\ r.intents = List(<<"assess">>)
        /\ r.data_keys = Absent
        /\ r.agents = <<>>}

SessionOutcomes ==
    {Raised, Returned(Result(NoText, "assess", FALSE, <<>>)),
     Returned(Result(AdviceOf("assess"), "assess", FALSE, <<>>))}

SessionNext ==
    \/ \E u \in Users, q \in SessionQueries :
            served < MaxRequests /\ Route(u, q) /\ UNCHANGED <<snapVars, procVars, cacheVars>>
    \/ \E u \in Users, q \in SessionQueries :
            served < MaxRequests /\ Ask(u, q) /\ UNCHANGED <<snapVars, procVars, cacheVars>>
    \/ \E u \in Users, q \in SessionQueries, r \in StoredResponses :
            CacheResponse(u, q, r) /\ UNCHANGED <<snapVars, procVars, cacheVars>>
    \/ Tick /\ UNCHANGED <<snapVars, procVars, cacheVars>>
    \/ ClassifyAttempt(SessionAnswers) /\ UNCHANGED <<snapVars, procVars, cacheVars>>
    \/ Filter /\ UNCHANGED <<snapVars, procVars, cacheVars>>
    \/ DispatchCall(SessionOutcomes) /\ UNCHANGED <<snapVars, procVars, cacheVars>>
    \/ DispatchEnd /\ UNCHANGED <<snapVars, procVars, cacheVars>>
    \/ ChainSkip /\ UNCHANGED <<snapVars, procVars, cacheVars>>
    \/ SummarizeNone /\ UNCHANGED <<snapVars, procVars, cacheVars>>
    \/ SummarizeCall({<<"narrative">>}) /\ UNCHANGED <<snapVars, procVars, cacheVars>>
    \/ Finish /\ UNCHANGED <<snapVars, procVars, cacheVars>>

SessionSpec == Init /\ [][SessionNext]_vars

\* the steps of a call that is under way: the thread that runs route goes on
\* as long as the advisory service and the handlers return or raise
RouterStep ==
    \/ ClassifyAttempt(AdvisoryResponses)
    \/ FallbackDetect(FallbackIntents)
    \/ Filter
    \/ DispatchCall(AllOutcomes)
    \/ DispatchEnd
    \/ ChainPlanning(AllOutcomes)
    \/ ChainSkip
    \/ ChainRepaying(AllOutcomes)
    \/ ChainEnd
    \/ SummarizeNone
    \/ SummarizeCall(SummaryOutcomes)
    \/ Finish

FairSpec == Init /\ [][Next]_vars /\ WF_vars(RouterStep /\ UNCHANGED <<snapVars, procVars, cacheVars>>)

(***************************************************************************)
(* SnapSpec: fetch_all_financial_data applied to every bundle of sources.  *)
(***************************************************************************)
SnapInit ==
    /\ RouterInit
    /\ spc = "start"
    /\ store \in Bundles
    /\ failed = {}
    /\ snap = NoSnap
    /\ ProcIdle
    /\ CacheIdle

SnapNext ==
    \E fails \in FailureSets : fetch_all_financial_data(fails) /\ UNCHANGED <<routerVars, procVars, cacheVars>>

SnapSpec == SnapInit /\ [][SnapNext]_vars

(***************************************************************************)
(* TrendSpec: _compute_monthly_trend on every pair of holding lists.       *)
(***************************************************************************)
TrendInit ==
    /\ RouterInit
    /\ SnapIdle
    /\ tpc = "start"
    /\ mf_data \in HoldingLists
    /\ stock_data \in HoldingLists
    /\ monthly_trend = <<>>
    /\ bank_data = <<>>
    /\ clock = Today
    /\ summaries = <<>>
    /\ CacheIdle

TrendNext == ComputeMonthlyTrend /\ UNCHANGED <<routerVars, snapVars, cacheVars>>

TrendSpec == TrendInit /\ [][TrendNext]_vars

(***************************************************************************)
(* SummarySpec: the bank summarizer called again and again on one input.   *)
(***************************************************************************)
SummaryInit ==
    /\ RouterInit
    /\ SnapIdle
    /\ tpc = "start"
    /\ mf_data = <<>>
    /\ stock_data = <<>>
    /\ monthly_trend = <<>>
    /\ bank_data \in SummaryInputs
    /\ clock = Today
    /\ summaries = <<>>
    /\ CacheIdle

SummaryNext ==
    \/ BankProcess /\ UNCHANGED <<routerVars, snapVars, cacheVars>>
    \/ MonthPasses /\ UNCHANGED <<routerVars, snapVars, cacheVars>>

SummarySpec == SummaryInit /\ [][SummaryNext]_vars

(***************************************************************************)
(* CacheSpec: cache_response and get_cached_response called in any order   *)
(* on one ResponseAgent, by several users, while time passes.              *)
(***************************************************************************)
CacheNext ==
    \/ \E u \in CacheUsers, q \in CacheQueries, r \in StoredResponses :
            StoreResponse(u, q, r) /\ UNCHANGED <<snapVars, procVars>>
    \/ \E u \in CacheUsers, q \in CacheQueries :
            GetCachedResponse(u, q) /\ UNCHANGED <<snapVars, procVars>>
    \/ Tick /\ UNCHANGED <<snapVars, procVars, cacheVars>>

CacheSpec == Init /\ [][CacheNext]_vars

(***************************************************************************)
(*                                                                         *)
(* The claims.                                                             *)
(*                                                                         *)
(***************************************************************************)

\* C1: every handler that route / route_with_schema invokes is one of
\* buying, repaying, planning, assess, and the data_keys handed to it are
\* among bank, credit, epf, networth, mf, stock, whatever the schema names.
C1_DispatchWithinAllowLists ==
    \A i \in 1..Len(calls) :
        /\ calls[i].agent \in {"buying", "repaying", "planning", "assess"}
        /\ Range(calls[i].keys) \subseteq {"bank", "credit", "epf", "networth", "mf", "stock"}

\* a schema naming "passwords" and "mf" reached a handler, with "mf" alone
C1_Witness ==
    /\ calls # <<>>
    /\ calls[1].keys = <<"mf">>
    /\ schema.path \in {"parsed", "override"}

\* C2: two route calls with the same user and the same query, neither
\* skipping the cache, the second within the cache lifetime of the first,
\* invoke the classification at most once in total.
C2_IdenticalRequestsClassifyOnce ==
    (/\ served >= 1
     /\ Finished
     /\ mode = "route" /\ last.mode = "route"
     /\ ~skip_cache /\ ~last.skip
     /\ user = last.user /\ query = last.query
     /\ now - last.at < 3600)
    => last.classified + classifyCalls <= 1

\* position of the calls of a handler in the log
CallsOf(agent, how) ==
    {i \in 1..Len(calls) : calls[i].agent = agent /\ calls[i].how = how}

\* C3: in route, a buying result with plan metadata and no planning result
\* has Planning invoked after Buying returned; a planning result so obtained
\* that holds a goal with amount > 0 and timeline_months > 6 has Repayment
\* invoked after Planning returned; Planning is never chain-invoked when a
\* planning result exists.
C3_ChainingOrder ==
    /\ (/\ pc \in {"summarize", "done"} /\ mode = "route"
        /\ HasResult(results, "buying") /\ GetResult(results, "buying").plan
        /\ CallsOf("planning", "direct") = {})
       => \E i \in CallsOf("buying", "direct"), j \in CallsOf("planning", "chain") :
            i < j /\ ~calls[i].raised
    /\ (/\ pc \in {"summarize", "done"} /\ mode = "route"
        /\ \E j \in CallsOf("planning", "chain") : ~calls[j].raised
        /\ \E n \in 1..Len(PlanGoals(results)) :
              /\ PlanGoals(results)[n].amount > 0
              /\ PlanGoals(results)[n].timeline_months > 6)
       => \E j \in CallsOf("planning", "chain"), k \in CallsOf("repaying", "chain") :
            j < k /\ ~calls[j].raised
    /\ \A j \in CallsOf("planning", "chain") :
          \A i \in 1..(j - 1) : calls[i].agent # "planning"

\* Buying, then the chained Planning, then the chained Repayment
C3_Witness ==
    /\ pc = "done"
    /\ \E i \in CallsOf("buying", "direct"), j \in CallsOf("planning", "chain"),
          k \in CallsOf("repaying", "chain") : i < j /\ j < k

\* the handlers the dispatch loop has to call, in order
C9_ToCall ==
    LET keys == [i \in 1..Len(schema.agents.v) |-> AgentKey(schema.agents.v[i])]
    IN  SelectSeq(keys, LAMBDA k : k \in {"buying", "repaying", "planning", "assess"})

\* the handlers the dispatch loop called, in order
C9_Called ==
    LET direct == SelectSeq(calls, LAMBDA c : c.how = "direct")
    IN  [i \in 1..Len(direct) |-> direct[i].agent]

\* C9: a dispatched handler that raises leaves a placeholder failure response
\* whose metadata carries the agent's name, and every remaining agent of the
\* filtered list is still invoked.
C9_FailureIsolated ==
    /\ pc \in {"dispatch", "chain"} =>
         \A i \in 1..Len(calls) :
            (calls[i].raised /\ \A j \in (i + 1)..Len(calls) : calls[j].agent # calls[i].agent)
            => /\ HasResult(results, calls[i].agent)
               /\ GetResult(results, calls[i].agent).agent = calls[i].agent
               /\ GetResult(results, calls[i].agent).response = <<"failed", calls[i].agent>>
    /\ pc \in {"chain", "chain_repay", "summarize", "done"} => C9_Called = C9_ToCall

\* a handler raised and the next one of the list was called
C9_Witness ==
    /\ pc = "chain"
    /\ \E i \in CallsOf(calls[1].agent, "direct") : i = 1 /\ calls[1].raised
    /\ Len(calls) >= 2
    /\ calls[2].how = "direct"
    /\ GetResult(results, calls[1].agent).response = <<"failed", calls[1].agent>>

\* C10: interpret_user_goal calls the classification at most 4 times,
\* returns at the first response that parses, and waits 2^k seconds after
\* the k-th failed attempt, k = 0..3.
C10_BoundedBackoff ==
    /\ classifyCalls <= 4
    /\ Len(sleeps) <= 4
    /\ sleeps = SubSeq(<<1, 2, 4, 8>>, 1, Len(sleeps))
    /\ classifyCalls = Len(sleeps) + (IF schema.path = "parsed" THEN 1 ELSE 0)

\* four failed attempts, then the fallback
C10_Witness ==
    /\ sleeps = <<1, 2, 4, 8>>
    /\ classifyCalls = 4
    /\ schema.path \in {"fallback", "keyword", "default"}

\* the asset-list entries tagged with the given attribute
C4_Tagged(attr) ==
    {i \in 1..Len(store.assets_list) :
        /\ store.assets_list[i].isDict
        /\ Strip(Upper(store.assets_list[i].netWorthAttribute)) = attr}

\* C4: in every snapshot returned, the deduplicated asset map has the key
\* MUTUAL_FUNDS only if no asset-list entry is tagged MF_BALANCE, and the key
\* EPF only if no entry is tagged EPF_BALANCE.
C4_DedupKeys ==
    spc = "returned" =>
        /\ "MUTUAL_FUNDS" \in DOMAIN snap.deduped_asset_map
              => C4_Tagged(<<"MF", "_", "BALANCE">>) = {}
        /\ "EPF" \in DOMAIN snap.deduped_asset_map
              => C4_Tagged(<<"EPF", "_", "BALANCE">>) = {}

\* an MF_BALANCE entry and no EPF_BALANCE entry: the map has EPF only
C4_Witness ==
    /\ spc = "returned"
    /\ C4_Tagged(<<"MF", "_", "BALANCE">>) # {}
    /\ C4_Tagged(<<"EPF", "_", "BALANCE">>) = {}
    /\ "MUTUAL_FUNDS" \notin DOMAIN snap.deduped_asset_map
    /\ "EPF" \in DOMAIN snap.deduped_asset_map

\* the amount an entry records in value.units, 0 when it records none
C5_Amount(units) ==
    IF units # <<>> /\ units[1] = "-" THEN 0 - DigitValue(units[2])
    ELSE IF units # <<>> /\ units[1] \in DigitTokens THEN DigitValue(units[1])
    ELSE 0

C5_HasWord(item, words) ==
    item.isDict /\ \E w \in words : Contains(Strip(Upper(item.netWorthAttribute)), w)

C5_Debt ==
    SumSeq([i \in 1..Len(store.assets_list) |->
        IF C5_HasWord(store.assets_list[i], {<<"LIABILITY">>, <<"CREDIT", "_", "CARD">>})
        THEN Abs(C5_Amount(store.assets_list[i].units)) ELSE 0])

C5_Savings ==
    SumSeq([i \in 1..Len(store.assets_list) |->
        IF C5_HasWord(store.assets_list[i], {<<"SAVINGS">>, <<"DEPOSIT">>})
        THEN C5_Amount(store.assets_list[i].units) ELSE 0])

\* the sources that savings and debt fall back on hold nothing
C5_AssetsOnly ==
    /\ store.mf_txns = <<>>
    /\ store.epf = [current_pf_balance |-> 0, pension_balance |-> 0]
    /\ store.credit = 0
    /\ store.networth_total = 0

\* C5: every asset-list entry whose tag contains LIABILITY or CREDIT_CARD
\* adds the absolute value of its amount to debt, also when the amount is
\* negative, and every entry whose tag contains SAVINGS or DEPOSIT adds its
\* amount to savings (SAVINGS_ACCOUNT 100000 and CREDIT_CARD -15000 give
\* savings 100000 and debt 15000).
C5_SavingsAndDebt ==
    (spc = "returned" /\ C5_AssetsOnly) =>
        /\ snap.debt = C5_Debt
        /\ snap.savings = C5_Savings

\* the example of the claim, and the debt it yields
C5_Witness ==
    /\ spc = "returned"
    /\ store.assets_list =
          <<AssetItem(<<"SAVINGS", "_", "ACCOUNT">>, <<"100000">>),
            AssetItem(<<"CREDIT", "_", "CARD">>, <<"-", "15000">>)>>
    /\ C5_AssetsOnly
    /\ snap.savings = 100000
    /\ snap.debt = 0

\* CREDIT or DEBIT: type code 1 is a credit and any other code a debit, a
\* type string is read in upper case
C6_Class(txn) ==
    IF txn.shape = "list" THEN (IF txn.type = 1 THEN "CREDIT" ELSE "DEBIT")
    ELSE IF txn.type \in {"CREDIT", "credit"} THEN "CREDIT"
    ELSE IF txn.type \in {"DEBIT", "debit"} THEN "DEBIT"
    ELSE "OTHER"

\* the amounts of the class dated within the trailing 3 months
C6_Recent(class) ==
    SumSeq([i \in 1..Len(store.bank_txns) |->
        IF /\ store.bank_txns[i].date # -1
           /\ store.bank_txns[i].date >= Today - 3
           /\ C6_Class(store.bank_txns[i]) = class
        THEN store.bank_txns[i].amount ELSE 0])

\* the Bank summary's total of a type code over every date; the summary is
\* empty when a transaction is keyed or its date does not parse
C6_AllTime(code) ==
    IF \E i \in 1..Len(store.bank_txns) :
          store.bank_txns[i].shape = "dict" \/ store.bank_txns[i].date = -1
    THEN 0
    ELSE SumSeq([i \in 1..Len(store.bank_txns) |->
            IF store.bank_txns[i].type = code THEN store.bank_txns[i].amount ELSE 0])

\* C6 as stated: income is the sum of the amounts of the transactions dated
\* within the trailing 3 months and classified CREDIT, expenses the sum of
\* those classified DEBIT; older transactions contribute to neither.
C6_RecentOnly ==
    spc = "returned" =>
        /\ snap.income = C6_Recent("CREDIT")
        /\ snap.expenses = C6_Recent("DEBIT")

\* C6, amended: income is the sum of the recent CREDIT amounts when that sum
\* is not zero, and otherwise the Bank summary's total credits over every
\* date; expenses likewise with DEBIT and the total debits.  A CREDIT of
\* 50000 and a DEBIT of 20000 of this month give 50000 and 20000.
C6_RecentOrSummary ==
    spc = "returned" =>
        /\ snap.income =
              IF C6_Recent("CREDIT") # 0 THEN C6_Recent("CREDIT") ELSE C6_AllTime(1)
        /\ snap.expenses =
              IF C6_Recent("DEBIT") # 0 THEN C6_Recent("DEBIT") ELSE C6_AllTime(2)
        /\ store.bank_txns = <<BankTxn("list", 50000, Today, 1),
                               BankTxn("list", 20000, Today - 1, 2)>>
              => snap.income = 50000 /\ snap.expenses = 20000

\* a credit older than 3 months is the income
C6_Witness ==
    /\ spc = "returned"
    /\ store.bank_txns = <<BankTxn("list", 7000, Today - 5, 1)>>
    /\ snap.income = 7000

\* C7: if exactly one of the six fetches (net worth, credit, bank, mutual
\* fund, stock, EPF) raises, fetch_all_financial_data still returns a
\* complete snapshot.
C7_OneFailureTolerated ==
    (/\ spc # "start"
     /\ Cardinality(failed) = 1
     /\ failed \subseteq {"networth", "credit", "bank", "mf", "stock", "epf"})
    => spc = "returned"

\* the bank fetch raised and the call raised with it
C7_Witness ==
    /\ spc = "raised"
    /\ failed = {"bank"}
    /\ store = EmptyBundle

\* C8: in every snapshot returned, income, expenses, savings and debt are
\* each >= 0.
C8_NonNegative ==
    spc = "returned" =>
        /\ snap.income >= 0
        /\ snap.expenses >= 0
        /\ snap.savings >= 0
        /\ snap.debt >= 0

\* units sold beyond the units bought: a negative total value is the savings
C8_Witness ==
    /\ spc = "returned"
    /\ store.mf_txns = <<MfTxn(2, TRUE, 5, 2000)>>
    /\ store.assets_list = <<>>
    /\ snap.savings = -10000

\* C11: while attempts remain, a response that is empty, an HTML page or no
\* valid JSON (free text without a JSON object included) is rejected and
\* retried: no schema returned by interpret_user_goal is built from one.
C11_UnusableRejected ==
    schema.path = "parsed" => schema.raw \notin {"empty", "html", "badjson", "text"}

\* the first response was free text and its schema went on to the filter
C11_Witness ==
    /\ pc = "filter"
    /\ schema.path = "parsed"
    /\ schema.raw = "text"
    /\ classifyCalls = 1

\* C12: when the 4 classification attempts have failed, the schema
\* interpret_user_goal returns has exactly one intent, one of buy, plan,
\* assess, repay; when the fallback detection yields no single intent and the
\* prompt has no keyword, it is intents [plan], agents [planning_agent],
\* data_keys [bank, credit].
C12_FallbackStep(fi) ==
    FallbackDetect({fi}) =>
        /\ classifyCalls = retries
        /\ Len(sleeps) = retries
        /\ schema'.intents.tag = "list"
        /\ Len(schema'.intents.v) = 1
        /\ schema'.intents.v[1] \in Intents
        /\ (fi \notin Intents /\ ~HasKeyword(query)) =>
              /\ schema'.intents = List(<<"plan">>)
              /\ schema'.agents = List(<<"planning_agent">>)
              /\ schema'.data_keys = List(<<"bank", "credit">>)

C12_FallbackSchema == [][\A fi \in FallbackIntents : C12_FallbackStep(fi)]_vars

\* the detection answered "unknown" for a prompt without a keyword
C12_Witness ==
    /\ pc = "filter"
    /\ schema.path = "default"
    /\ detectCalls = 1
    /\ classifyCalls = retries
    /\ ~HasKeyword(query)

C14_NothingUsable ==
    \A i \in CallsOf("buying", "direct") \cup CallsOf("planning", "direct")
             \cup CallsOf("assess", "direct") \cup CallsOf("repaying", "direct") :
        calls[i].raised \/ calls[i].response = NoText

C14_NoAdviceMessage ==
    (pc = "done" /\ mode = "route" /\ C14_NothingUsable)
        => (out.kind = "noadvice" /\ out.text = NoAdviceText /\ sumCalls = 0)

\* the only dispatched handler raised, and the summarization service was
\* called with the text of its placeholder
C14_Witness ==
    /\ pc = "done"
    /\ mode = "route"
    /\ Len(calls) = 1
    /\ calls[1].how = "direct"
    /\ calls[1].raised
    /\ sumCalls = 1
    /\ sumPrompt = <<FailedText(calls[1].agent)>>
    /\ out.kind = "summary"

\* C15: when a handler succeeded, the summarization prompt holds the response
\* text of every handler that returned non-empty text in this route call,
\* dispatched directly or by chaining, the directly dispatched ones in the
\* order of the agent list.
C15_Returned(c) == ~c.raised /\ c.response # NoText

C15_DirectTexts ==
    LET d == SelectSeq(calls, LAMBDA c : c.how = "direct" /\ C15_Returned(c))
    IN  [i \in 1..Len(d) |-> d[i].response]

C15_PromptHoldsAllOutputs ==
    (pc = "done" /\ mode = "route" /\ sumCalls = 1)
        => /\ \A i \in 1..Len(calls) :
                C15_Returned(calls[i]) => calls[i].response \in Range(sumPrompt)
           /\ FilterSeq(sumPrompt, Range(C15_DirectTexts)) = C15_DirectTexts

\* buying was dispatched, planning was chained and returned advice, and the
\* prompt holds the buying advice only
C15_Witness ==
    /\ pc = "done"
    /\ mode = "route"
    /\ sumCalls = 1
    /\ \E j \in CallsOf("planning", "chain") :
          /\ C15_Returned(calls[j])
          /\ calls[j].response \notin Range(sumPrompt)
    /\ sumPrompt = <<AdviceOf("buying")>>

\* C16: when the summarization call errors or yields no usable text while a
\* handler output exists, route returns the concatenation curate_response
\* builds, one labelled section per handler result.
C16_Unusable == SummaryOutcomes \ {<<"narrative">>}

C16_CuratedOnFailure ==
    (pc = "done" /\ mode = "route" /\ sumCalls = 1)
        => IF out.kind = "summary"
           THEN out.text \notin C16_Unusable
           ELSE /\ out.kind = "curated"
                /\ out.text = curate_response(results)
                /\ Len(out.text) = Len(results)

\* the summarization call failed inside call_gemini and its error text is the
\* response of route
C16_Witness ==
    /\ pc = "done"
    /\ mode = "route"
    /\ sumCalls = 1
    /\ sumPrompt # <<>>
    /\ out.kind = "summary"
    /\ out.text = <<"I couldn't process that right now.">>

\* C17: route never lets an exception reach its caller: whatever the advisory
\* service answers (null or ill-typed schema fields included) and whatever
\* the handlers do, the call ends with a response object.
C17_AlwaysResponds ==
    (Finished /\ mode = "route")
        => /\ pc = "done"
           /\ out.kind \in {"summary", "curated", "noadvice", "stored"}

\* the classification named data_keys as null: the filter raised before any
\* handler was called and route ended with the exception
C17_Witness ==
    /\ pc = "raised"
    /\ mode = "route"
    /\ schema.path = "parsed"
    /\ schema.data_keys = Null
    /\ calls = <<>>
    /\ out = ExceptionOut

\* C18: when the cache holds an unexpired entry for the user and the trimmed,
\* lower-cased query, route returns exactly the stored response and invokes
\* neither the advisory service nor a handler; a query with the "[vision] "
\* flag is answered without the cache, by the full run.
C18_Unexpired ==
    {e \in session_cache :
        e.key = user \o <<":">> \o Lower(Strip(query)) /\ now < e.expires}

C18_CacheServes ==
    (mode = "route" /\ pc # "idle")
        => /\ (~skip_cache /\ C18_Unexpired # {})
                => /\ pc = "done"
                   /\ \E e \in C18_Unexpired : out = e.response
                   /\ classifyCalls = 0 /\ detectCalls = 0
                   /\ calls = <<>> /\ sumCalls = 0
           /\ (skip_cache /\ pc = "done")
                => /\ out.kind \in {"summary", "curated", "noadvice"}
                   /\ classifyCalls >= 1

\* a query in other case and with blanks around it was answered from the
\* entry stored for its normalised form
C18_Witness ==
    /\ mode = "route"
    /\ pc = "done"
    /\ ~skip_cache
    /\ query = <<" ", "LOAN", " ">>
    /\ C18_Unexpired # {}
    /\ out \in StoredResponses
    /\ classifyCalls = 0

\* a flagged query ran in full although the cache held an entry for it
C18_VisionWitness ==
    /\ mode = "route"
    /\ pc = "done"
    /\ skip_cache
    /\ C18_Unexpired # {}
    /\ classifyCalls = 1

\* C19: in every schema interpret_user_goal returns, parsed or fallback,
\* agents is exactly the image of intents under buy -> buying_agent,
\* plan -> planning_agent, assess -> assess_agent, repay -> repaying_agent.
C19_ImageOf(intents) ==
    {intent_agent_map(i) : i \in Range(GetOrEmpty(intents).v) \cap Intents}

C19_AgentsFollowIntents ==
    (pc = "filter" /\ schema.path \in {"parsed", "fallback", "keyword", "default"})
        => /\ schema.agents.tag = "list"
           /\ Range(schema.agents.v) = C19_ImageOf(schema.intents)

\* the fallback detection answered "buy" and the schema names buy_agent
C19_Witness ==
    /\ pc = "filter"
    /\ schema.path = "fallback"
    /\ schema.intents = List(<<"buy">>)
    /\ schema.agents = List(<<"buy_agent">>)
    /\ classifyCalls = retries

\* C20: for EPF and for mutual funds alike, savings holds the summary total
\* exactly when no entry of the asset list carries the holding's tag, and
\* never both the entry and the total, so that each holding is counted
\* exactly once.
C20_Tagged(tag) ==
    {i \in 1..Len(store.assets_list) :
        Strip(Upper(store.assets_list[i].netWorthAttribute)) = tag}

C20_Once(tag, total) ==
    IF C20_Tagged(tag) = {} THEN total
    ELSE SumSeq([i \in 1..Len(store.assets_list) |->
            IF i \in C20_Tagged(tag) THEN C5_Amount(store.assets_list[i].units) ELSE 0])

C20_EachHoldingOnce ==
    (spc = "returned" /\ SavingsBeforeFallback(store) # 0)
        => snap.savings = C5_Savings + C20_Once(EPF_BALANCE, epf_balance(store))
                                     + C20_Once(MF_BALANCE, mf_holdings(store))

\* an EPF_BALANCE entry of 5000 next to a savings account, and an EPF summary
\* of 9000: savings is the savings account alone
C20_Witness ==
    /\ spc = "returned"
    /\ store.assets_list =
          <<AssetItem(<<"SAVINGS", "_", "ACCOUNT">>, <<"100000">>),
            AssetItem(<<"EPF", "_", "BALANCE">>, <<"5000", ".", "0">>)>>
    /\ epf_balance(store) = 9000
    /\ store.mf_txns = <<>>
    /\ snap.savings = 100000

\* C21: in every snapshot the deduplicated asset map has STOCKS and
\* NETWORTH_REPORTED, and CASH_SAVINGS is the snapshot's savings (after any
\* fallback) less the MF value when MF was not already counted and less the
\* EPF value when EPF was not already counted.
C21_Less(tag, value) == IF C20_Tagged(tag) = {} THEN value ELSE 0

C21_FallbackWitness ==
    /\ spc = "returned"
    /\ SavingsBeforeFallback(store) = 0
    /\ snap.savings = 150000
    /\ snap.deduped_asset_map["CASH_SAVINGS"] = 150000

\* C22: the monthly trend has at most 6 entries, with pairwise distinct
\* months in strictly descending order; they are the most recent months that
\* have a mutual-fund or stock transaction, and each value is the sum over
\* both sources of units x price of the month's transactions.
C22_Rows(data) ==
    {<<h, i>> \in (1..Len(data)) \X (1..5) : i <= Len(data[h].txns)}

\* the rows that carry a date, a number of units and a price
C22_Priced(e) == e.n >= 4 /\ e.date \in 1..LastMonth /\ e.num

C22_MonthsOf(data) ==
    {data[r[1]].txns[r[2]].date : r \in {x \in C22_Rows(data) : C22_Priced(data[x[1]].txns[x[2]])}}

C22_ValueIn(data, m) ==
    SumSeq([h \in 1..Len(data) |->
        SumSeq([i \in 1..Len(data[h].txns) |->
            IF C22_Priced(data[h].txns[i]) /\ data[h].txns[i].date = m
            THEN data[h].txns[i].a * data[h].txns[i].b ELSE 0])])

C22_Months == C22_MonthsOf(mf_data) \cup C22_MonthsOf(stock_data)

C23_Valid(txns) == SelectSeq(txns, LAMBDA t : t.wellFormed /\ t.dateOk)

C23_BadRowSkipped ==
    spc = "returned"
        => /\ snap.mf_summary.summary
           /\ snap.mf_summary.totalValue =
                 total_units(C23_Valid(store.mf_txns)) * latest_nav(C23_Valid(store.mf_txns))

\* a purchase of 1000 units at 5 next to a row whose date does not parse:
\* the summarizer raised and the orchestrator holds no mutual-fund summary
C23_Witness ==
    /\ spc = "returned"
    /\ store.mf_txns = <<MfTxn(1, TRUE, 5, 1000), MfTxn(1, FALSE, 5, 1000)>>
    /\ ~snap.mf_summary.summary
    /\ snap.mf_summary.totalValue = 0

\* C24: a structurally malformed record inside a raw source, such as an
\* asset-list entry that is a string, is treated as no data: the later
\* derivations run and fetch_all_financial_data returns a snapshot.
C24_Malformed ==
    \E i \in 1..Len(store.assets_list) : ~store.assets_list[i].isDict

C24_MalformedTolerated ==
    (spc # "start" /\ failed = {} /\ C24_Malformed) => spc = "returned"

\* every fetch answered, one asset-list entry is a string, and the call
\* raised
C24_Witness ==
    /\ spc = "raised"
    /\ failed = {}
    /\ store.assets_list = <<AssetItem(SAVINGS \o <<"_", "ACCOUNT">>, <<"100000">>), StringItem>>
    /\ snap = NoSnap

\* C25: in every route call whose planning result holds a goal with
\* amount > 0 and timeline_months > 6, the repaying handler is invoked after
\* the planning handler, whether planning was dispatched from the schema or
\* by chaining.
C25_LongHorizon ==
    \E n \in 1..Len(PlanGoals(results)) : GoalQualifies(PlanGoals(results)[n])

C25_PlanningCalls == CallsOf("planning", "direct") \cup CallsOf("planning", "chain")

C25_RepaymentFollows ==
    (pc = "done" /\ mode = "route" /\ C25_LongHorizon)
        => \E j \in C25_PlanningCalls, k \in 1..Len(calls) :
              /\ ~calls[j].raised
              /\ calls[k].agent = "repaying"
              /\ j < k

\* planning was dispatched from the schema and returned a goal of 600000
\* over 12 months; no other handler was invoked
C25_Witness ==
    /\ pc = "done"
    /\ mode = "route"
    /\ Len(calls) = 1
    /\ calls[1].agent = "planning"
    /\ calls[1].how = "direct"
    /\ PlanGoals(results) = <<Goal(600000, 12)>>

\* C26: for a fixed user and a fixed raw input a domain summarizer returns
\* the same summary on every call, whatever was called before and whenever
\* the call is made.
C26_SameSummaryEveryCall ==
    \A i, j \in 1..Len(summaries) : summaries[i].out = summaries[j].out

\* a row without a date was summarized in two different months and the
\* monthly trends of the two summaries differ
C26_Witness ==
    /\ Len(summaries) = 2
    /\ bank_data = <<DatelessTxn>>
    /\ summaries[1].at # summaries[2].at
    /\ summaries[1].out.monthlyTrend # summaries[2].out.monthlyTrend
    /\ summaries[1].out.totalDebits = summaries[2].out.totalDebits

\* C27: the bank-summary fallback changes only a component the 3-month scan
\* left at zero: a scanned income that is not zero is never overwritten, nor
\* is a scanned expenses that is not zero, and with an empty or unreadable
\* bank summary both keep their scanned values.
C27_SummaryEmpty ==
    \/ store.bank_txns = <<>>
    \/ \E i \in 1..Len(store.bank_txns) :
          store.bank_txns[i].shape = "dict" \/ store.bank_txns[i].date = -1

C27_FallbackFrame ==
    spc = "returned"
        => /\ C6_Recent("CREDIT") # 0 => snap.income = C6_Recent("CREDIT")
           /\ C6_Recent("DEBIT") # 0 => snap.expenses = C6_Recent("DEBIT")
           /\ C27_SummaryEmpty
                 => /\ snap.income = C6_Recent("CREDIT")
                    /\ snap.expenses = C6_Recent("DEBIT")

\* a credit of this month and an older one: the scan found 50000, the bank
\* summary totals 57000, and income stays 50000 while expenses, left at
\* zero by the scan, are read from the summary
C27_Witness ==
    /\ spc = "returned"
    /\ store.bank_txns = <<BankTxn("list", 50000, Today, 1), BankTxn("list", 7000, Today - 5, 1)>>
    /\ totalCredits(store.bank_txns) = 57000
    /\ snap.income = 50000
    /\ snap.expenses = totalDebits(store.bank_txns)

\* C28: every route call eventually ends, provided each advisory-service
\* call and each handler call returns or raises: it reaches done, or the
\* raised state in which the fault leaves route. The retry loop, the dispatch
\* loop over agents and the chaining loop over goals are bounded and no step
\* goes back: every step of a call moves to a later stage, or stays in its
\* stage with fewer passes of that stage's loop left.
C28_Stage ==
    CASE pc = "interpret" -> 6
      [] pc = "filter" -> 5
      [] pc = "dispatch" -> 4
      [] pc = "chain" -> 3
      [] pc = "chain_repay" -> 2
      [] pc = "summarize" -> 1
      [] OTHER -> 0

\* the passes the loop of the current stage can still make
C28_Left ==
    CASE pc = "interpret" -> retries + 1 - attempt
      [] pc = "dispatch" -> Len(schema.agents.v) + 1 - idx
      [] pc = "chain_repay" -> Len(PlanGoals(results)) + 1 - gIdx
      [] OTHER -> 0

C28_Forward ==
    /\ C28_Left' >= 0
    /\ \/ C28_Stage' < C28_Stage
       \/ C28_Stage' = C28_Stage /\ C28_Left' < C28_Left

C29_InvokedOnce ==
    \A i, j \in 1..Len(calls) : calls[i].agent = calls[j].agent => i = j

C29_DirectResultKept ==
    \A i, j \in 1..Len(calls) :
        (calls[i].how = "direct" /\ calls[j].how = "chain" /\ ~calls[j].raised)
            => calls[i].agent # calls[j].agent

C29_NoHandlerTwice ==
    mode = "route" => C29_InvokedOnce /\ C29_DirectResultKept

\* buying and repaying were dispatched and returned, planning was chained
\* and named a long-horizon goal, and the repaying handler was called a
\* second time; its return replaced results["repaying"]. No call raised.
C29_Witness ==
    /\ pc = "done"
    /\ mode = "route"
    /\ \A i \in 1..Len(calls) : ~calls[i].raised
    /\ \E i, j \in 1..Len(calls) :
          /\ i < j
          /\ calls[i].agent = "repaying" /\ calls[i].how = "direct"
          /\ calls[j].agent = "repaying" /\ calls[j].how = "chain"
    /\ Cardinality(CallsOf("repaying", "direct")) = 1

\* C30: after any sequence of cache_response and get_cached_response calls,
\* get_cached_response(query, user) returns a response only if that response
\* was stored for the same user and for a query equal to it after trimming
\* and lower-casing; a response stored for one user is never returned to
\* another, whatever the user ids and the query texts are.
C30_StoredFor(resp, u, q) ==
    \E s \in stored :
        /\ s.response = resp
        /\ s.user = u
        /\ Lower(Strip(s.query)) = Lower(Strip(q))

C30_OnlyOwnResponses ==
    \A resp \in got.returned : C30_StoredFor(resp, got.user, got.query)

\* user "u1" stored a response for the query "u2:loan"; user "u1:u2", who
\* stored nothing, asked for "loan" and was handed it
C30_Witness ==
    /\ stored = {[user |-> <<"u1">>, query |-> <<"u2", ":", "loan">>,
                  response |-> CHOOSE r \in StoredResponses : TRUE]}
    /\ got.user = <<"u1", ":", "u2">>
    /\ got.query = <<"loan">>
    /\ got.returned = StoredResponses

\* the lookup that the key does serve: the same user, the query in another
\* spelling
C30_SameUserWitness ==
    /\ \E s \in stored : s.user = <<"u2">> /\ s.query = <<" ", "LOAN", " ">>
    /\ got.user = <<"u2">>
    /\ got.query = <<"loan">>
    /\ got.returned # {}

=============================================================================
